---- MODULE Spec2Model ----
(***************************************************************************)
(* The dataset adapters of data/voc0712.py: VOCAnnotationTransform,        *)
(* VOCDetection, ImgDataset and LPDataset.                                 *)
(*                                                                         *)
(* Python values are modelled as follows.                                  *)
(*   str        a TLA+ string; a character is a string of length 1         *)
(*   list       a sequence (1-based here, 0-based in Python)               *)
(*   int / int  (Python 3 true division) the exact quotient, kept as the   *)
(*              reduced fraction <<numerator, denominator>>                *)
(*   ndarray    an image is kept by its layout: its shape, the meaning of  *)
(*              each axis and the order of its channels                    *)
(*   exception  the class name of the exception that ends the call         *)
(***************************************************************************)
EXTENDS Integers, Sequences, FiniteSets, TLC

VARIABLES
    tt,     \* the VOCAnnotationTransform object: class_to_ind, keep_difficult
    ds,     \* the dataset adapter object (kind "none" before construction)
    disk,   \* the input at hand: the files a constructor read, or the
            \* parsed annotation given to the transform
    ret     \* the last call: operation, arguments, outcome

vars == <<tt, ds, disk, ret>>

----------------------------------------------------------------------------
(* Bounds of the model.                                                    *)

\* objects per XML annotation document
MaxObjects == 2
\* (year, split) selectors given to VOCDetection
MaxSelectors == 2
\* lines of the tab-separated manifest given to ImgDataset
MaxLines == 2
\* files matched by the glob pattern given to LPDataset
MaxPool == 4
\* the cap of LPDataset's subsample, 30000 in the source (line 256), scaled
\* so that pools below, at and above the cap are all explored
SampleCap == 2

----------------------------------------------------------------------------
(* Python's built-in string operations.                                    *)

Char(s, i) == SubSeq(s, i, i)

Whitespace == {" ", "\t", "\n", "\r"}

RECURSIVE LStrip(_)
\* str.lstrip()
LStrip(s) ==
    IF Len(s) > 0 /\ Char(s, 1) \in Whitespace THEN LStrip(Tail(s)) ELSE s

RECURSIVE RStrip(_)
\* str.rstrip()
RStrip(s) ==
    IF Len(s) > 0 /\ Char(s, Len(s)) \in Whitespace
    THEN RStrip(SubSeq(s, 1, Len(s) - 1))
    ELSE s

\* str.strip()
Strip(s) == LStrip(RStrip(s))

RECURSIVE IndexOf(_, _, _)
\* the least position >= i of character c in s, 0 when there is none
IndexOf(s, c, i) ==
    IF i > Len(s) THEN 0
    ELSE IF Char(s, i) = c THEN i
    ELSE IndexOf(s, c, i + 1)

UpperCase == "ABCDEFGHIJKLMNOPQRSTUVWXYZ"
LowerCase == "abcdefghijklmnopqrstuvwxyz"

RECURSIVE Lower(_)
\* str.lower()
Lower(s) ==
    IF Len(s) = 0 THEN s
    ELSE LET k == IndexOf(UpperCase, Char(s, 1), 1)
         IN  (IF k = 0 THEN Char(s, 1) ELSE Char(LowerCase, k)) \o Lower(Tail(s))

RECURSIVE Split(_, _)
\* str.split(sep) for a one-character separator: never empty
Split(s, sep) ==
    LET k == IndexOf(s, sep, 1)
    IN  IF k = 0 THEN <<s>>
        ELSE <<SubSeq(s, 1, k - 1)>> \o Split(SubSeq(s, k + 1, Len(s)), sep)

Digits == "0123456789"

RECURSIVE AllDigits(_)
AllDigits(s) ==
    Len(s) = 0 \/ (IndexOf(Digits, Char(s, 1), 1) # 0 /\ AllDigits(Tail(s)))

RECURSIVE DigitsValue(_, _)
DigitsValue(s, acc) ==
    IF Len(s) = 0 THEN acc
    ELSE DigitsValue(Tail(s), 10 * acc + IndexOf(Digits, Char(s, 1), 1) - 1)

\* the digits of a literal after its optional sign
Unsigned(s) ==
    IF Len(s) > 0 /\ Char(s, 1) \in {"+", "-"} THEN Tail(s) ELSE s

\* whether int(s) returns (it raises ValueError otherwise)
IsInt(s) ==
    LET u == Unsigned(Strip(s)) IN Len(u) > 0 /\ AllDigits(u)

\* int(s), for a string with IsInt(s)
ParseInt(s) ==
    LET t == Strip(s)
        v == DigitsValue(Unsigned(t), 0)
    IN  IF Len(t) > 0 /\ Char(t, 1) = "-" THEN 0 - v ELSE v

\* os.path.join of a directory that does not end in "/" and a relative name
PathJoin(a, b) == a \o "/" \o b

----------------------------------------------------------------------------
(* Python's list indexing and true division.                               *)

\* whether lst[i] returns for a list of n elements (IndexError otherwise)
InRange_NoWrap(n, i) == 0 <= i /\ i < n

InRange(n, i) == -n <= i /\ i < n

\* the 1-based position that lst[i] reads: a negative i counts from the end
Pos(n, i) == IF i < 0 THEN n + i + 1 ELSE i + 1

RECURSIVE GCD(_, _)
GCD(a, b) == IF b = 0 THEN a ELSE GCD(b, a % b)

Abs(n) == IF n < 0 THEN 0 - n ELSE n

\* n / d for d > 0: the exact quotient as a reduced fraction
TrueDiv(n, d) ==
    LET g == GCD(Abs(n), d) IN <<n \div g, d \div g>>

----------------------------------------------------------------------------
(* Outcomes of a call.                                                     *)

Ok(v) == [status |-> "ok", value |-> v]

Raise(e) == [status |-> e, value |-> <<>>]

\* an outcome reached after the normalised target was computed
WithPre(outcome, pre) ==
    [status |-> outcome.status, value |-> outcome.value, pre |-> <<pre>>]

----------------------------------------------------------------------------
(* VOCAnnotationTransform.                                                 *)

VOC_CLASSES ==
    << "aeroplane", "bicycle", "bird", "boat",
       "bottle", "bus", "car", "cat", "chair",
       "cow", "diningtable", "dog", "horse",
       "motorbike", "person", "pottedplant",
       "sheep", "sofa", "train", "tvmonitor" >>

\* dict(zip(keys, range(len(keys))))
ZipRange(keys) ==
    [n \in {keys[k] : k \in 1..Len(keys)} |->
        (CHOOSE k \in 1..Len(keys) : keys[k] = n) - 1]

\* VOCAnnotationTransform(class_to_ind, keep_difficult); a class_to_ind of
\* None or {} (the empty function here) is falsy and gives the default
VOCAnnotationTransform_init(class_to_ind, keep_difficult) ==
    [class_to_ind   |-> IF DOMAIN class_to_ind = {}
                        THEN ZipRange(VOC_CLASSES)
                        ELSE class_to_ind,
     keep_difficult |-> keep_difficult]

pts == <<"xmin", "ymin", "xmax", "ymax">>

\* int(bbox.find(pt).text) - 1
ZeroBased_NoDecrement(text) == ParseInt(text)

ZeroBased(text) == ParseInt(text) - 1

\* cur_pt / width if i % 2 == 0 else cur_pt / height, i the 0-based position
ScalePt_AlwaysWidth(cur_pt, i, width, height) == TrueDiv(cur_pt, width)

ScalePt(cur_pt, i, width, height) ==
    IF i % 2 = 0 THEN TrueDiv(cur_pt, width) ELSE TrueDiv(cur_pt, height)

\* if not self.keep_difficult and difficult: continue
Skipped_Never(self, difficult) == FALSE

Skipped(self, difficult) == ~self.keep_difficult /\ difficult

\* self.class_to_ind[name]
Lookup_Default(class_to_ind, name) ==
    IF name \in DOMAIN class_to_ind THEN Ok(class_to_ind[name]) ELSE Ok(-1)

Lookup(class_to_ind, name) ==
    IF name \in DOMAIN class_to_ind
    THEN Ok(class_to_ind[name])
    ELSE Raise("KeyError")

(* An object element is [difficult, name, bndbox]: each the sequence of the  *)
(* matching child elements' contents, empty when find() returns None. A     *)
(* difficult or name content is the element's text, a bndbox content the    *)
(* record of the texts of xmin, ymin, xmax and ymax.                        *)
RECURSIVE CallLoop(_, _, _, _, _)
\* the loop of __call__ over target.iter('object'), res the list so far
CallLoop(self, objs, width, height, res) ==
    IF objs = <<>> THEN Ok(res)
    ELSE LET obj == Head(objs) IN
        IF obj.difficult = <<>> THEN Raise("AttributeError")
        ELSE IF ~IsInt(obj.difficult[1]) THEN Raise("ValueError")
        ELSE IF Skipped(self, ParseInt(obj.difficult[1]) = 1)
             THEN CallLoop(self, Tail(objs), width, height, res)
        ELSE IF obj.name = <<>> THEN Raise("AttributeError")
        ELSE IF obj.bndbox = <<>> THEN Raise("AttributeError")
        ELSE IF \E k \in 1..4 : ~IsInt(obj.bndbox[1][pts[k]])
             THEN Raise("ValueError")
        ELSE LET name   == Strip(Lower(obj.name[1]))
                 bndbox == [k \in 1..4 |->
                              ScalePt(ZeroBased(obj.bndbox[1][pts[k]]),
                                      k - 1, width, height)]
                 label_idx == Lookup(self.class_to_ind, name)
             IN  IF label_idx.status # "ok" THEN label_idx
                 ELSE CallLoop(self, Tail(objs), width, height,
                          Append(res, bndbox \o <<label_idx.value>>))

\* VOCAnnotationTransform.__call__(target, width, height)
VOCAnnotationTransform_call(self, target, width, height) ==
    CallLoop(self, target.objects, width, height, <<>>)

----------------------------------------------------------------------------
(* Annotation documents handed to VOCAnnotationTransform.__call__.         *)

Box(xmin, ymin, xmax, ymax) ==
    [xmin |-> xmin, ymin |-> ymin, xmax |-> xmax, ymax |-> ymax]

Object(difficult, name, bndbox) ==
    [difficult |-> <<difficult>>, name |-> <<name>>, bndbox |-> <<bndbox>>]

\* the dog of VOC2007 image 001718, and a box over a whole 500 x 375 image
DogBox == Box("97", "14", "439", "333")
FullBox == Box("1", "1", "501", "376")

ObjectTexts ==
    { Object(d, n, b) : d \in {"0", "1"},
                        n \in {"dog", " Person\n", "emu"},
                        b \in {DogBox, FullBox} }

\* objects that lack a child element or hold a text that is no integer
MalformedObjects ==
    { [difficult |-> <<>>, name |-> <<"dog">>, bndbox |-> <<DogBox>>],
      [difficult |-> <<"0">>, name |-> <<"emu">>, bndbox |-> <<>>],
      Object("1", "cat", Box("x", "14", "439", "333")) }

RECURSIVE SeqsUpTo(_, _)
\* the sequences over S of length at most n
SeqsUpTo(S, n) ==
    IF n = 0 THEN {<<>>}
    ELSE LET shorter == SeqsUpTo(S, n - 1)
         IN  shorter \cup {Append(q, x) : q \in shorter, x \in S}

Documents ==
    { [objects |-> objs] :
        objs \in SeqsUpTo(ObjectTexts \cup MalformedObjects, MaxObjects) }

\* (width, height) of the callers: an image's shape, or pull_anno's (1, 1)
Dimensions == { <<500, 375>>, <<1, 1>> }

\* the class_to_ind arguments: None (or {}), and a vocabulary of two classes
NoVocabulary == <<>>
TwoClasses == ("dog" :> 0) @@ ("person" :> 1)

NoDataset == [kind |-> "none"]
NoDisk == [kind |-> "none"]
NoCall ==
    [op |-> "none", args |-> <<>>, status |-> "none", value |-> <<>>,
     pre |-> <<>>]

\* the record of a call: its outcome and, for a retrieval that got as far as
\* the normalised target (target1, or the transform's list), that target
Returned(op, args, outcome) ==
    [op |-> op, args |-> args, status |-> outcome.status,
     value |-> outcome.value,
     pre |-> IF "pre" \in DOMAIN outcome THEN outcome.pre ELSE <<>>]

\* a parsed annotation and the image size, about to be transformed
InitXml ==
    /\ \E c \in {NoVocabulary, TwoClasses}, k \in BOOLEAN :
          tt = VOCAnnotationTransform_init(c, k)
    /\ ds = NoDataset
    /\ \E target \in Documents, dim \in Dimensions :
          disk = [kind |-> "xml", target |-> target,
                  width |-> dim[1], height |-> dim[2]]
    /\ ret = NoCall

\* the caller applies the transform to the parsed annotation
Call ==
    /\ disk.kind = "xml"
    /\ ret' = Returned("call",
                 [target |-> disk.target, width |-> disk.width,
                  height |-> disk.height],
                 VOCAnnotationTransform_call(tt, disk.target, disk.width,
                                             disk.height))
    /\ UNCHANGED <<tt, ds, disk>>

NextXml == Call

SpecXml == InitXml /\ [][NextXml]_vars

----------------------------------------------------------------------------
(* Images and the injected augmentation transform.                         *)

\* the array cv2.imread decodes: height x width x 3, channels in BGR order
Decoded(width, height) ==
    [shape    |-> <<height, width, 3>>,
     axes     |-> <<"H", "W", "C">>,
     channels |-> <<"B", "G", "R">>,
     mirrored |-> FALSE]

\* img[:, :, (2, 1, 0)]
ToRgb(img) ==
    [img EXCEPT !.channels = <<img.channels[3], img.channels[2], img.channels[1]>>]

\* torch.from_numpy(img).permute(2, 0, 1)
Permute201(img) ==
    [img EXCEPT !.shape = <<img.shape[3], img.shape[1], img.shape[2]>>,
                !.axes  = <<img.axes[3], img.axes[1], img.axes[2]>>]

\* the transform arguments: None, or one of two augmentations
Transforms == {"None", "identity", "mirror"}

\* 1 - x for a fraction x
OneMinus(x) == TrueDiv(x[2] - x[1], x[2])

\* self.transform(img, boxes, labels): the identity, or a horizontal flip of
\* the image and of the boxes' normalised x coordinates
Augment(transform, img, boxes, labels) ==
    IF transform = "mirror"
    THEN [img    |-> [img EXCEPT !.mirrored = ~img.mirrored],
          boxes  |-> [k \in 1..Len(boxes) |->
                        <<OneMinus(boxes[k][3]), boxes[k][2],
                          OneMinus(boxes[k][1]), boxes[k][4]>>],
          labels |-> labels]
    ELSE [img |-> img, boxes |-> boxes, labels |-> labels]

\* target[:, :4] and target[:, 4] of np.array(target), the transform, the
\* channel reversal and np.hstack((boxes, np.expand_dims(labels, axis=1)))
Augmented(transform, img, target) ==
    LET boxes  == [k \in 1..Len(target) |-> SubSeq(target[k], 1, 4)]
        labels == [k \in 1..Len(target) |-> target[k][5]]
        out    == Augment(transform, img, boxes, labels)
    IN  [img    |-> ToRgb(out.img),
         target |-> [k \in 1..Len(target) |->
                       out.boxes[k] \o <<out.labels[k]>>]]

----------------------------------------------------------------------------
(* The VOC file system the model runs on.                                  *)

VOC_ROOT == "/VOCdevkit"

Selectors == { <<"2007", "trainval">>, <<"2012", "trainval">>, <<"2007", "test">> }

\* <root>/VOC<year>/ImageSets/Main/<split>.txt, as lists of lines; a path
\* outside the domain is a file that does not exist
ManifestsA ==
    ("/VOCdevkit/VOC2007/ImageSets/Main/trainval.txt" :>
        <<"000001\n", "000002\n">>)
    @@ ("/VOCdevkit/VOC2012/ImageSets/Main/trainval.txt" :>
        <<" 000003 \n", "000001\n">>)

ManifestsB ==
    ("/VOCdevkit/VOC2007/ImageSets/Main/trainval.txt" :> <<"000002\n">>)
    @@ ("/VOCdevkit/VOC2012/ImageSets/Main/trainval.txt" :> <<>>)
    @@ ("/VOCdevkit/VOC2007/ImageSets/Main/test.txt" :>
        <<"000004\n", "\n">>)

ManifestSets == {ManifestsA, ManifestsB}

\* <root>/VOC<year>/Annotations/<id>.xml, parsed
AnnotationFiles ==
    ("/VOCdevkit/VOC2007/Annotations/000001.xml" :>
        [objects |-> <<Object("0", "dog", DogBox)>>])
    @@ ("/VOCdevkit/VOC2007/Annotations/000002.xml" :>
        [objects |-> <<Object("1", "emu", DogBox),
                       Object("0", "Person ", FullBox)>>])
    @@ ("/VOCdevkit/VOC2012/Annotations/000003.xml" :>
        [objects |-> <<Object("1", "dog", DogBox)>>])
    @@ ("/VOCdevkit/VOC2012/Annotations/000001.xml" :>
        [objects |-> <<Object("0", "cat", Box("1", "1", "9", "3")),
                       Object("1", "car", Box("2", "3", "4", "5"))>>])
    @@ ("/VOCdevkit/VOC2007/Annotations/000004.xml" :>
        [objects |-> <<Object("0", "boat", DogBox)>>])

\* <root>/VOC<year>/JPEGImages/<id>.jpg, decoded: <<width, height>>
VocImageFiles ==
    ("/VOCdevkit/VOC2007/JPEGImages/000001.jpg" :> <<500, 375>>)
    @@ ("/VOCdevkit/VOC2007/JPEGImages/000002.jpg" :> <<500, 375>>)
    @@ ("/VOCdevkit/VOC2012/JPEGImages/000003.jpg" :> <<500, 375>>)
    @@ ("/VOCdevkit/VOC2012/JPEGImages/000001.jpg" :> <<4, 2>>)

----------------------------------------------------------------------------
(* The OCR and plate file systems the model runs on.                       *)

OCR_ROOT == "/ocr"

\* lines a tab-separated manifest may hold:
\* <relative image path> <text label> <x0> <y0> <x1> <y1>
CsvLines ==
    { "img.jpg\tHELLO\t10\t20\t110\t220\n",
      "img.jpg\t full\t0\t0\t200\t400\n",
      "img.jpg\tOUT\t150\t50\t250\t100\n",
      "img.jpg\tSHORT\t1\t2\n",
      "img.jpg\tBAD\tx\t2\t3\t4\n",
      "gone.jpg\tGONE\t1\t2\t3\t4\n" }

OcrImageFiles == ("/ocr/img.jpg" :> <<200, 400>>)

RECURSIVE IntToStr(_)
\* the decimal digits of n >= 0
IntToStr(n) ==
    IF n < 10 THEN Char(Digits, n + 1)
    ELSE IntToStr(n \div 10) \o Char(Digits, (n % 10) + 1)

\* the files the glob pattern can match, in the order glob lists them; the
\* names encode <area>-<tilt>-<box>-<vertices>-<label indices>-<..>-<..>
LPFile(i) ==
    CASE i = 1 -> "/ccpd/025-95_113-154&383_386&473-386&473_177&454_154&383_363&402-0_0_22_27_27_33_16-37-15.jpg"
      [] i = 2 -> "/ccpd/1-0_0-0&0_720&1160-720&1160_0&1160_0&0_720&0-1_2_3_24_25_26_27-1-1.jpg"
      [] i = 3 -> "/ccpd/2-0_0-700&100_800&200-8&2_1&2_1&1_8&1-33_24_34_0_0_0_0-1-1.jpg"
      [] i = 4 -> "/ccpd/broken-name.jpg"
      [] i = 5 -> "/ccpd/5-0_0-1&2_3&4-3&4_1&4_1&2_3&2-34_0_0_0_0_0_0-1-1.jpg"
      [] OTHER -> "/ccpd/" \o IntToStr(i) \o "-0_0-" \o IntToStr(i) \o "&"
                  \o IntToStr(i + 1) \o "_" \o IntToStr(i + 2) \o "&"
                  \o IntToStr(i + 3) \o "-v-0_0_0_0_0_0_0-1-1.jpg"

\* glob.glob(root) when the pattern matches n files
Glob(n) == [i \in 1..n |-> LPFile(i)]

\* every plate image is 720 wide and 1160 high
LPImageFiles == [path \in {LPFile(i) : i \in 1..MaxPool} |-> <<720, 1160>>]

ImageFiles == VocImageFiles @@ OcrImageFiles @@ LPImageFiles

\* cv2.imread(path): the decoded array, or None (the empty sequence here)
\* for a file that does not exist
ImRead(path) ==
    IF path \in DOMAIN ImageFiles
    THEN <<Decoded(ImageFiles[path][1], ImageFiles[path][2])>>
    ELSE <<>>

----------------------------------------------------------------------------
(* VOCDetection.                                                           *)

\* self._annopath % img_id and self._imgpath % img_id
AnnoPath(img_id) == img_id[1] \o "/Annotations/" \o img_id[2] \o ".xml"
ImgPath(img_id) == img_id[1] \o "/JPEGImages/" \o img_id[2] \o ".jpg"

\* the lines of one manifest, each stripped and paired with the root path
IdsOf_Reversed(rootpath, lines) ==
    [k \in 1..Len(lines) |-> <<rootpath, Strip(lines[Len(lines) + 1 - k])>>]

IdsOf(rootpath, lines) ==
    [k \in 1..Len(lines) |-> <<rootpath, Strip(lines[k])>>]

RECURSIVE ReadIds(_, _, _, _)
\* the loop of __init__ over image_sets, ids the list so far
ReadIds(root, image_sets, files, ids) ==
    IF image_sets = <<>> THEN Ok(ids)
    ELSE LET year     == Head(image_sets)[1]
             name     == Head(image_sets)[2]
             rootpath == PathJoin(root, "VOC" \o year)
             path     == PathJoin(PathJoin(PathJoin(rootpath, "ImageSets"),
                                           "Main"), name \o ".txt")
         IN  IF path \notin DOMAIN files THEN Raise("FileNotFoundError")
             ELSE ReadIds(root, Tail(image_sets), files,
                          ids \o IdsOf(rootpath, files[path]))

\* VOCDetection(root, image_sets, transform) over the manifests in files;
\* target_transform is the VOCAnnotationTransform object tt
VOCDetection_init(root, image_sets, transform, files) ==
    LET ids == ReadIds(root, image_sets, files, <<>>)
    IN  IF ids.status # "ok" THEN ids
        ELSE Ok([kind      |-> "voc",
                 root      |-> root,
                 image_set |-> image_sets,
                 transform |-> transform,
                 name      |-> "VOC0712",
                 ids       |-> ids.value])

\* VOCDetection.__len__
VOCDetection_len(self) == Ok(Len(self.ids))

\* VOCDetection.pull_item(index)
pull_item(self, target_transform, index) ==
    IF ~InRange(Len(self.ids), index) THEN Raise("IndexError")
    ELSE LET img_id == self.ids[Pos(Len(self.ids), index)] IN
    IF AnnoPath(img_id) \notin DOMAIN AnnotationFiles
    THEN Raise("FileNotFoundError")
    ELSE LET anno == AnnotationFiles[AnnoPath(img_id)]
             img  == ImRead(ImgPath(img_id)) IN
    IF img = <<>> THEN Raise("AttributeError")
    ELSE LET height == img[1].shape[1]
             width  == img[1].shape[2]
             target == VOCAnnotationTransform_call(target_transform, anno,
                                                   width, height) IN
    IF target.status # "ok" THEN target
    ELSE IF self.transform # "None"
    THEN IF target.value = <<>>
         THEN WithPre(Raise("IndexError"), target.value)
         ELSE LET aug == Augmented(self.transform, img[1], target.value)
              IN  WithPre(Ok([img    |-> Permute201(aug.img),
                              target |-> aug.target,
                              height |-> height,
                              width  |-> width]), target.value)
    ELSE WithPre(Ok([img    |-> Permute201(img[1]),
                     target |-> target.value,
                     height |-> height,
                     width  |-> width]), target.value)

\* VOCDetection.__getitem__(index): im, gt of pull_item
VOCDetection_getitem(self, target_transform, index) ==
    LET item == pull_item(self, target_transform, index)
    IN  IF item.status # "ok" THEN item
        ELSE [item EXCEPT !.value = [img    |-> item.value.img,
                                     target |-> item.value.target]]

\* VOCDetection.pull_image(index)
VOCDetection_pull_image(self, index) ==
    IF ~InRange(Len(self.ids), index) THEN Raise("IndexError")
    ELSE Ok(ImRead(ImgPath(self.ids[Pos(Len(self.ids), index)])))

\* VOCDetection.pull_anno(index)
VOCDetection_pull_anno(self, target_transform, index) ==
    IF ~InRange(Len(self.ids), index) THEN Raise("IndexError")
    ELSE LET img_id == self.ids[Pos(Len(self.ids), index)] IN
    IF AnnoPath(img_id) \notin DOMAIN AnnotationFiles
    THEN Raise("FileNotFoundError")
    ELSE LET gt == VOCAnnotationTransform_call(target_transform,
                       AnnotationFiles[AnnoPath(img_id)], 1, 1)
         IN  IF gt.status # "ok" THEN gt
             ELSE WithPre(Ok(<<img_id[2], gt.value>>), gt.value)

----------------------------------------------------------------------------
(* ImgDataset.                                                             *)

Min(a, b) == IF a < b THEN a ELSE b

\* the injected text-target transform: text -> (encoding, length)
TextEncode(text) == <<text, Len(text)>>

\* [[temp[0] / width, temp[1] / height, temp[2] / width, temp[3] / height, 0]]
Target1(temp, width, height) ==
    << << TrueDiv(temp[1], width), TrueDiv(temp[2], height),
          TrueDiv(temp[3], width), TrueDiv(temp[4], height), 0 >> >>

\* ImgDataset(root, csv_root, transform, target_transform) over a manifest
\* whose readlines() gives lines; target_transform is kept as a flag
ImgDataset_init(root, lines, transform, target_transform) ==
    Ok([kind             |-> "ocr",
        root             |-> root,
        data             |-> lines,
        transform        |-> transform,
        target_transform |-> target_transform,
        name             |-> "ocr"])

\* ImgDataset.__len__
ImgDataset_len(self) == Ok(Len(self.data))

\* the tail of __getitem__ shared by ImgDataset and LPDataset once target1
\* and data are known: the transform, text = data[0], text_length = data[1],
\* rois and the return; data is empty when the name is still unbound
Assemble(self, img, target1, data, height, width) ==
    IF data = <<>> THEN WithPre(Raise("UnboundLocalError"), target1)
    ELSE IF Len(data[1]) < 2 THEN WithPre(Raise("IndexError"), target1)
    ELSE IF self.transform = "None"
    THEN WithPre(Raise("UnboundLocalError"), target1)
    ELSE LET aug == Augmented(self.transform, img, target1)
         IN  WithPre(Ok([img         |-> Permute201(aug.img),
                         target      |-> aug.target,
                         height      |-> height,
                         width       |-> width,
                         text        |-> data[1][1],
                         text_length |-> data[1][2],
                         rois        |-> SubSeq(target1[1], 1, 4)]), target1)

\* ImgDataset.__getitem__(idx)
ImgDataset_getitem(self, idx) ==
    IF ~InRange(Len(self.data), idx) THEN Raise("IndexError")
    ELSE LET per_label == Split(RStrip(self.data[Pos(Len(self.data), idx)]), "\t")
             img       == ImRead(PathJoin(self.root, per_label[1]))
             fields    == SubSeq(per_label, 3, Min(6, Len(per_label))) IN
    IF img = <<>> THEN Raise("AttributeError")
    ELSE IF \E k \in 1..Len(fields) : ~IsInt(fields[k]) THEN Raise("ValueError")
    ELSE IF Len(fields) < 4 THEN Raise("IndexError")
    ELSE LET height  == img[1].shape[1]
             width   == img[1].shape[2]
             temp    == [k \in 1..Len(fields) |-> ParseInt(fields[k])]
             target1 == Target1(temp, width, height)
             text    == LStrip(per_label[2])
             data    == IF self.target_transform
                        THEN <<TextEncode(text)>> ELSE <<>>
         IN  Assemble(self, img[1], target1, data, height, width)

\* ImgDataset.pull_image(idx)
ImgDataset_pull_image(self, idx) ==
    IF ~InRange(Len(self.data), idx) THEN Raise("IndexError")
    ELSE LET per_label == Split(RStrip(self.data[Pos(Len(self.data), idx)]), "\t")
         IN  Ok(ImRead(PathJoin(self.root, per_label[1])))

----------------------------------------------------------------------------
(* LPDataset.                                                              *)

\* the province characters, each written as its Unicode code point
provinces ==
    <<
       "U+7696", "U+6CAA", "U+6D25", "U+6E1D", "U+5180", "U+664B", "U+8499", "U+8FBD",
       "U+5409", "U+9ED1", "U+82CF", "U+6D59", "U+4EAC", "U+95FD", "U+8D63", "U+9C81",
       "U+8C6B", "U+9102", "U+6E58", "U+7CA4", "U+6842", "U+743C", "U+5DDD", "U+8D35",
       "U+4E91", "U+85CF", "U+9655", "U+7518", "U+9752", "U+5B81", "U+65B0", "U+8B66",
       "U+5B66", "O" >>

alphabets ==
    << "A", "B", "C", "D", "E", "F", "G", "H", "J", "K", "L", "M", "N", "P",
       "Q", "R", "S", "T", "U", "V", "W", "X", "Y", "Z", "O" >>

ads ==
    << "A", "B", "C", "D", "E", "F", "G", "H", "J", "K", "L", "M", "N", "P",
       "Q", "R", "S", "T", "U", "V", "W", "X", "Y", "Z", "0", "1", "2", "3",
       "4", "5", "6", "7", "8", "9", "O" >>

\* randperm(len(temp))[:30000], perm a permutation of 0 .. len(temp) - 1
Selected_NoCap(perm) == perm

Selected(perm) == SubSeq(perm, 1, Min(Len(perm), SampleCap))

\* LPDataset(root, transform, target_transform) when glob.glob(root) gives
\* temp and randperm gives perm
LPDataset_init(root, temp, perm, transform, target_transform) ==
    LET selected == Selected(perm)
    IN  Ok([kind             |-> "lp",
            root             |-> root,
            data             |-> [k \in 1..Len(selected) |-> temp[selected[k] + 1]],
            transform        |-> transform,
            target_transform |-> target_transform,
            name             |-> "ocr"])

\* LPDataset.__len__
LPDataset_len(self) == Ok(Len(self.data))

RECURSIVE Flatten(_)
\* the concatenation of a list of lists
Flatten(ls) == IF ls = <<>> THEN <<>> ELSE Head(ls) \o Flatten(Tail(ls))

\* LPDataset.__getitem__(idx); the text ''.join(temp) is kept as the list of
\* its characters
LPDataset_getitem(self, idx) ==
    IF ~InRange(Len(self.data), idx) THEN Raise("IndexError")
    ELSE LET path     == self.data[Pos(Len(self.data), idx)]
             img      == ImRead(path)
             parts    == Split(path, "/")
             per_name == parts[Len(parts)]
             fields   == Split(per_name, "-") IN
    IF img = <<>> THEN Raise("AttributeError")
    ELSE IF Len(fields) < 3 THEN Raise("IndexError")
    ELSE LET pairs == Split(fields[3], "_")
             coor  == Flatten([k \in 1..Len(pairs) |-> Split(pairs[k], "&")]) IN
    IF \E k \in 1..Len(coor) : ~IsInt(coor[k]) THEN Raise("ValueError")
    ELSE IF Len(coor) < 4 THEN Raise("IndexError")
    ELSE LET height  == img[1].shape[1]
             width   == img[1].shape[2]
             temp    == [k \in 1..Len(coor) |-> ParseInt(coor[k])]
             target1 == Target1(temp, width, height) IN
    IF Len(fields) < 5 THEN WithPre(Raise("IndexError"), target1)
    ELSE LET texts == Split(fields[5], "_") IN
    IF \E k \in 1..Len(texts) : ~IsInt(texts[k])
    THEN WithPre(Raise("ValueError"), target1)
    ELSE LET label == [k \in 1..Len(texts) |-> ParseInt(texts[k])] IN
    IF \/ Len(label) < 2
       \/ ~InRange(Len(provinces), label[1])
       \/ ~InRange(Len(alphabets), label[2])
       \/ \E k \in 3..Len(label) : ~InRange(Len(ads), label[k])
    THEN WithPre(Raise("IndexError"), target1)
    ELSE LET text == <<provinces[Pos(Len(provinces), label[1])],
                       alphabets[Pos(Len(alphabets), label[2])]>>
                     \o [k \in 1..(Len(label) - 2) |->
                           ads[Pos(Len(ads), label[k + 2])]]
             data == IF self.target_transform THEN TextEncode(text) ELSE pairs
         IN  Assemble(self, img[1], target1, <<data>>, height, width)

\* LPDataset.pull_image(idx)
LPDataset_pull_image(self, idx) ==
    IF ~InRange(Len(self.data), idx) THEN Raise("IndexError")
    ELSE Ok(ImRead(self.data[Pos(Len(self.data), idx)]))

----------------------------------------------------------------------------
(* The adapters as a state machine: one adapter is constructed, then its   *)
(* operations are called in any order with any integer index around its    *)
(* range.                                                                  *)

\* the indices tried on a list of n elements: two beyond either end
Indices(n) == (0 - n - 1)..n

\* the permutations of 0 .. n - 1, as sequences
Perms(n) ==
    { p \in [1..n -> 0..(n - 1)] : \A i, j \in 1..n : p[i] = p[j] => i = j }

Init ==
    /\ tt = VOCAnnotationTransform_init(NoVocabulary, FALSE)
    /\ ds = NoDataset
    /\ disk = NoDisk
    /\ ret = NoCall

\* the object after a constructor call, which leaves none when it raises
Constructed(made) == IF made.status = "ok" THEN made.value ELSE NoDataset

\* the call record of a constructor
Made(op, args, made) == Returned(op, args, [made EXCEPT !.value = <<>>])

ConstructVOC ==
    /\ ds.kind = "none"
    /\ \E image_sets \in SeqsUpTo(Selectors, MaxSelectors),
          transform \in Transforms, keep_difficult \in BOOLEAN,
          files \in ManifestSets :
          LET made == VOCDetection_init(VOC_ROOT, image_sets, transform, files)
          IN  /\ tt' = VOCAnnotationTransform_init(NoVocabulary, keep_difficult)
              /\ ds' = Constructed(made)
              /\ disk' = [kind |-> "voc", files |-> files]
              /\ ret' = Made("init", image_sets, made)

ConstructImg ==
    /\ ds.kind = "none"
    /\ \E lines \in SeqsUpTo(CsvLines, MaxLines), transform \in Transforms,
          target_transform \in BOOLEAN :
          LET made == ImgDataset_init(OCR_ROOT, lines, transform,
                                      target_transform)
          IN  /\ ds' = Constructed(made)
              /\ disk' = [kind |-> "ocr", lines |-> lines]
              /\ ret' = Made("init", <<>>, made)
    /\ UNCHANGED tt

ConstructLP ==
    /\ ds.kind = "none"
    /\ \E n \in 0..MaxPool, transform \in Transforms,
          target_transform \in BOOLEAN :
          \E perm \in Perms(n) :
             LET made == LPDataset_init("/ccpd/*.jpg", Glob(n), perm,
                                        transform, target_transform)
             IN  /\ ds' = Constructed(made)
                 /\ disk' = [kind |-> "lp", pool |-> Glob(n)]
                 /\ ret' = Made("init", <<>>, made)
    /\ UNCHANGED tt

VocLen ==
    /\ ds.kind = "voc"
    /\ ret' = Returned("len", <<>>, VOCDetection_len(ds))
    /\ UNCHANGED <<tt, ds, disk>>

VocGetItem ==
    /\ ds.kind = "voc"
    /\ \E index \in Indices(Len(ds.ids)) :
          ret' = Returned("getitem", index, VOCDetection_getitem(ds, tt, index))
    /\ UNCHANGED <<tt, ds, disk>>

VocPullImage ==
    /\ ds.kind = "voc"
    /\ \E index \in Indices(Len(ds.ids)) :
          ret' = Returned("pull_image", index, VOCDetection_pull_image(ds, index))
    /\ UNCHANGED <<tt, ds, disk>>

VocPullAnno ==
    /\ ds.kind = "voc"
    /\ \E index \in Indices(Len(ds.ids)) :
          ret' = Returned("pull_anno", index,
                          VOCDetection_pull_anno(ds, tt, index))
    /\ UNCHANGED <<tt, ds, disk>>

ImgLen ==
    /\ ds.kind = "ocr"
    /\ ret' = Returned("len", <<>>, ImgDataset_len(ds))
    /\ UNCHANGED <<tt, ds, disk>>

\* a __getitem__ that binds its text encoding to self.data, not to the local
ImgGetItem_AssignsSelfData ==
    /\ ds.kind = "ocr"
    /\ \E idx \in Indices(Len(ds.data)) :
          LET r == ImgDataset_getitem(ds, idx)
          IN  /\ ret' = Returned("getitem", idx, r)
              /\ ds' = IF r.status = "ok"
                       THEN [ds EXCEPT !.data = <<r.value.text>>]
                       ELSE ds
    /\ UNCHANGED <<tt, disk>>

ImgGetItem ==
    /\ ds.kind = "ocr"
    /\ \E idx \in Indices(Len(ds.data)) :
          ret' = Returned("getitem", idx, ImgDataset_getitem(ds, idx))
    /\ UNCHANGED <<tt, ds, disk>>

ImgPullImage ==
    /\ ds.kind = "ocr"
    /\ \E idx \in Indices(Len(ds.data)) :
          ret' = Returned("pull_image", idx, ImgDataset_pull_image(ds, idx))
    /\ UNCHANGED <<tt, ds, disk>>

LPLen ==
    /\ ds.kind = "lp"
    /\ ret' = Returned("len", <<>>, LPDataset_len(ds))
    /\ UNCHANGED <<tt, ds, disk>>

LPGetItem ==
    /\ ds.kind = "lp"
    /\ \E idx \in Indices(Len(ds.data)) :
          ret' = Returned("getitem", idx, LPDataset_getitem(ds, idx))
    /\ UNCHANGED <<tt, ds, disk>>

LPPullImage ==
    /\ ds.kind = "lp"
    /\ \E idx \in Indices(Len(ds.data)) :
          ret' = Returned("pull_image", idx, LPDataset_pull_image(ds, idx))
    /\ UNCHANGED <<tt, ds, disk>>

Next ==
    \/ ConstructVOC
    \/ ConstructImg
    \/ ConstructLP
    \/ VocLen
    \/ VocGetItem
    \/ VocPullImage
    \/ VocPullAnno
    \/ ImgLen
    \/ ImgGetItem
    \/ ImgPullImage
    \/ LPLen
    \/ LPGetItem
    \/ LPPullImage

Spec == Init /\ [][Next]_vars

----------------------------------------------------------------------------
(* What the properties below read off a state.                             *)

\* an object element with every child present and every number an integer
WellFormed(o) ==
    /\ Len(o.difficult) = 1 /\ IsInt(o.difficult[1])
    /\ Len(o.name) = 1
    /\ Len(o.bndbox) = 1
    /\ \A k \in 1..4 : IsInt(o.bndbox[1][pts[k]])

ClassName(o) == Strip(Lower(o.name[1]))

FlaggedDifficult(o) == ParseInt(o.difficult[1]) = 1

\* the objects the reader is to report, in document order
Reported(objs, keep_difficult) ==
    SelectSeq(objs, LAMBDA o : keep_difficult \/ ~FlaggedDifficult(o))

\* the 0-based pixel box of an object element
PixelBox(o) == [k \in 1..4 |-> ParseInt(o.bndbox[1][pts[k]]) - 1]

\* the divisor of the coordinate at 1-based position k
Divisor(k, width, height) == IF k \in {1, 3} THEN width ELSE height

\* fraction v is exactly p / d
IsQuotient(v, p, d) == v[2] > 0 /\ v[1] * d = p * v[2]

Length(d) == IF d.kind = "voc" THEN Len(d.ids) ELSE Len(d.data)

\* the element a valid index of the last call resolves to
Resolved(lst) == lst[Pos(Len(lst), ret.args)]

\* the 0-based pixel boxes and class indices behind the last __getitem__,
\* read from the annotation, the manifest line or the file name
SourceBoxes ==
    CASE ds.kind = "voc" ->
           LET objs == Reported(AnnotationFiles[AnnoPath(Resolved(ds.ids))].objects,
                                tt.keep_difficult)
           IN  [j \in 1..Len(objs) |->
                  [box |-> PixelBox(objs[j]),
                   cls |-> tt.class_to_ind[ClassName(objs[j])]]]
      [] ds.kind = "ocr" ->
           LET f == Split(RStrip(Resolved(ds.data)), "\t")
           IN  << [box |-> [k \in 1..4 |-> ParseInt(f[k + 2])], cls |-> 0] >>
      [] ds.kind = "lp" ->
           LET parts == Split(Resolved(ds.data), "/")
               f     == Split(Split(parts[Len(parts)], "-")[3], "_")
               lo    == Split(f[1], "&")
               hi    == Split(f[2], "&")
           IN  << [box |-> <<ParseInt(lo[1]), ParseInt(lo[2]),
                             ParseInt(hi[1]), ParseInt(hi[2])>>,
                   cls |-> 0] >>

\* <<width, height>> of the image behind the last __getitem__
SourceSize ==
    CASE ds.kind = "voc" -> ImageFiles[ImgPath(Resolved(ds.ids))]
      [] ds.kind = "ocr" ->
           ImageFiles[PathJoin(ds.root,
                               Split(RStrip(Resolved(ds.data)), "\t")[1])]
      [] ds.kind = "lp" -> ImageFiles[Resolved(ds.data)]

\* the last call was a __getitem__ that got as far as the normalised target
Normalised == ret.op = "getitem" /\ ret.pre # <<>>

----------------------------------------------------------------------------
(* C1: for a well-formed annotation whose class names are all in the       *)
(* vocabulary, the XML reader returns exactly one entry per object that is *)
(* not flagged difficult when keep_difficult is False, and one per object  *)
(* when it is True, in document order.                                     *)
C1_DifficultFilter ==
    (/\ ret.op = "call"
     /\ \A k \in 1..Len(ret.args.target.objects) :
           /\ WellFormed(ret.args.target.objects[k])
           /\ ClassName(ret.args.target.objects[k]) \in DOMAIN tt.class_to_ind)
    => LET objs == Reported(ret.args.target.objects, tt.keep_difficult)
       IN  /\ ret.status = "ok"
           /\ Len(ret.value) = Len(objs)
           /\ \A j \in 1..Len(objs) :
                 /\ ret.value[j][5] = tt.class_to_ind[ClassName(objs[j])]
                 /\ \A k \in 1..4 :
                       IsQuotient(ret.value[j][k], PixelBox(objs[j])[k],
                                  Divisor(k, ret.args.width, ret.args.height))

\* a difficult object followed by a plain one, read without keep_difficult
C1_Witness ==
    /\ ret.op = "call"
    /\ ret.status = "ok"
    /\ ~tt.keep_difficult
    /\ Len(ret.args.target.objects) = 2
    /\ \A k \in 1..2 : WellFormed(ret.args.target.objects[k])
    /\ FlaggedDifficult(ret.args.target.objects[1])
    /\ ~FlaggedDifficult(ret.args.target.objects[2])
    /\ Len(ret.value) = 1

(* C2: in all three adapters the target before augmentation is             *)
(* [x0/W, y0/H, x1/W, y1/H, class_index] of the 0-based pixel box: x by    *)
(* the width, y by the height, nothing clamped, so that (0,0)-(W,H) gives  *)
(* [0,0,1,1].                                                              *)
C2_Normalised ==
    Normalised =>
        LET pre   == ret.pre[1]
            boxes == SourceBoxes
            size  == SourceSize
        IN  /\ Len(pre) = Len(boxes)
            /\ \A j \in 1..Len(boxes) :
                  /\ \A k \in 1..4 :
                        IsQuotient(pre[j][k], boxes[j].box[k],
                                   Divisor(k, size[1], size[2]))
                  /\ pre[j][5] = boxes[j].cls
                  /\ boxes[j].box = <<0, 0, size[1], size[2]>>
                        => SubSeq(pre[j], 1, 4)
                             = << <<0, 1>>, <<0, 1>>, <<1, 1>>, <<1, 1>> >>

\* a coordinate beyond the image's dimension gives a value above 1
C2_Witness ==
    /\ Normalised
    /\ \E j \in 1..Len(ret.pre[1]) :
          /\ SourceBoxes[j].box[3] > SourceSize[1]
          /\ ret.pre[1][j][3][1] > ret.pre[1][j][3][2]

(* C3: the XML reader subtracts 1 from each bndbox value before dividing   *)
(* (1 gives numerator 0; (97,14,439,333) gives (96,13,438,332)); the       *)
(* tab-separated and file-name readers do not decrement.                   *)
C3_Decrement ==
    /\ (ds.kind = "voc" /\ ret.op = "pull_anno" /\ ret.status = "ok")
       => LET objs == Reported(AnnotationFiles[AnnoPath(Resolved(ds.ids))].objects,
                               tt.keep_difficult)
          IN  /\ Len(ret.value[2]) = Len(objs)
              /\ \A j \in 1..Len(objs) : \A k \in 1..4 :
                    /\ ret.value[2][j][k]
                         = <<ParseInt(objs[j].bndbox[1][pts[k]]) - 1, 1>>
                    /\ objs[j].bndbox[1][pts[k]] = "1"
                         => ret.value[2][j][k][1] = 0
              /\ objs = <<Object("0", "dog", DogBox)>>
                    => SubSeq(ret.value[2][1], 1, 4)
                         = << <<96, 1>>, <<13, 1>>, <<438, 1>>, <<332, 1>> >>
    /\ (ds.kind = "voc" /\ Normalised /\ SourceSize = <<500, 375>>)
       => \A j \in 1..Len(ret.pre[1]) :
             SourceBoxes[j].box = <<96, 13, 438, 332>>
                => SubSeq(ret.pre[1][j], 1, 4)
                     = << <<24, 125>>, <<13, 375>>, <<219, 250>>, <<332, 375>> >>
    /\ (ds.kind \in {"ocr", "lp"} /\ Normalised)
       => LET raw == IF ds.kind = "ocr"
                     THEN SubSeq(Split(RStrip(Resolved(ds.data)), "\t"), 3, 6)
                     ELSE Flatten([k \in 1..2 |->
                            Split(Split(Split(Resolved(ds.data), "-")[3],
                                        "_")[k], "&")])
          IN  \A k \in 1..4 :
                 ret.pre[1][1][k]
                   = TrueDiv(ParseInt(raw[k]),
                             Divisor(k, SourceSize[1], SourceSize[2]))

\* pull_anno of the dog annotation shows the decremented numerators
C3_Witness ==
    /\ ds.kind = "voc"
    /\ ret.op = "pull_anno"
    /\ ret.status = "ok"
    /\ ret.value[1] = "000001"
    /\ Len(ret.value[2]) = 1
    /\ SubSeq(ret.value[2][1], 1, 4)
         = << <<96, 1>>, <<13, 1>>, <<438, 1>>, <<332, 1>> >>

(* C4: the plate adapter built over a pool of N matched files holds        *)
(* min(N, cap) samples, each a member of the pool, none selected twice;    *)
(* with N at most the cap it holds the whole pool.                         *)
C4_Subsample ==
    ds.kind = "lp" =>
        LET n == Len(disk.pool)
            m == Len(ds.data)
        IN  /\ m = Min(n, SampleCap)
            /\ \A k \in 1..m : \E i \in 1..n : ds.data[k] = disk.pool[i]
            /\ \A j, k \in 1..m : ds.data[j] = ds.data[k] => j = k
            /\ n <= SampleCap
                  => {ds.data[k] : k \in 1..m} = {disk.pool[i] : i \in 1..n}
            /\ ret.op = "len" => ret.value = Min(n, SampleCap)

\* a pool larger than the cap, and length() answering the cap
C4_Witness ==
    /\ ds.kind = "lp"
    /\ Len(disk.pool) > SampleCap
    /\ ret.op = "len"
    /\ ret.value = SampleCap

\* the manifest of the selector at position k of image_sets
ManifestOf(image_sets, k) ==
    disk.files[VOC_ROOT \o "/VOC" \o image_sets[k][1] \o "/ImageSets/Main/"
               \o image_sets[k][2] \o ".txt"]

RECURSIVE LinesBefore(_, _)
\* the number of manifest lines of the selectors before position k
LinesBefore(image_sets, k) ==
    IF k = 1 THEN 0
    ELSE LinesBefore(image_sets, k - 1) + Len(ManifestOf(image_sets, k - 1))

(* C5: the VOC index is the concatenation, in selector-list order, of each *)
(* selector's manifest lines in file order, each paired with the           *)
(* selector's root path; length() is the total number of lines, and a      *)
(* selector listed twice contributes twice.                                *)
C5_IndexOrder ==
    ds.kind = "voc" =>
        LET sets == ds.image_set
        IN  /\ Len(ds.ids) = LinesBefore(sets, Len(sets) + 1)
            /\ \A k \in 1..Len(sets) :
                  \A j \in 1..Len(ManifestOf(sets, k)) :
                     ds.ids[LinesBefore(sets, k) + j]
                       = << VOC_ROOT \o "/VOC" \o sets[k][1],
                            Strip(ManifestOf(sets, k)[j]) >>
            /\ ret.op = "len" => ret.value = LinesBefore(sets, Len(sets) + 1)

\* one selector listed twice, its two lines indexed twice
C5_Witness ==
    /\ ds.kind = "voc"
    /\ Len(ds.image_set) = 2
    /\ ds.image_set[1] = ds.image_set[2]
    /\ Len(ds.ids) = 4
    /\ ds.ids[1] = ds.ids[3]
    /\ ds.ids[1] # ds.ids[2]

\* the last call was get, get_raw_image or get_raw_annotation
Retrieval == ret.op \in {"getitem", "pull_image", "pull_anno"}

\* what the last call's operation gives at index i
Retrieve(i) ==
    CASE ds.kind = "voc" /\ ret.op = "getitem" -> VOCDetection_getitem(ds, tt, i)
      [] ds.kind = "voc" /\ ret.op = "pull_image" -> VOCDetection_pull_image(ds, i)
      [] ds.kind = "voc" /\ ret.op = "pull_anno" -> VOCDetection_pull_anno(ds, tt, i)
      [] ds.kind = "ocr" /\ ret.op = "getitem" -> ImgDataset_getitem(ds, i)
      [] ds.kind = "ocr" /\ ret.op = "pull_image" -> ImgDataset_pull_image(ds, i)
      [] ds.kind = "lp" /\ ret.op = "getitem" -> LPDataset_getitem(ds, i)
      [] ds.kind = "lp" /\ ret.op = "pull_image" -> LPDataset_pull_image(ds, i)

(* C6 as stated: every integer index outside 0 .. length() - 1, negative   *)
(* ones included, makes a retrieval fail with an index error.              *)
C6_Original ==
    (Retrieval /\ (ret.args < 0 \/ ret.args >= Length(ds)))
    => ret.status = "IndexError"

(* C6 as amended: every integer index outside -length() .. length() - 1    *)
(* makes a retrieval fail with an index error and return nothing; an index *)
(* in -length() .. -1 counts from the end and gives what the index         *)
(* length() + index gives.                                                 *)
C6_Amended ==
    /\ (Retrieval /\ (ret.args < 0 - Length(ds) \/ ret.args >= Length(ds)))
       => (ret.status = "IndexError" /\ ret.value = <<>> /\ ret.pre = <<>>)
    /\ (Retrieval /\ 0 - Length(ds) <= ret.args /\ ret.args < 0)
       => ret = Returned(ret.op, ret.args, Retrieve(Length(ds) + ret.args))

\* an index below -length() on an adapter that holds samples
C6_Witness ==
    /\ Retrieval
    /\ Length(ds) > 0
    /\ ret.args < 0 - Length(ds)
    /\ ret.status = "IndexError"

(* C7: once an adapter is constructed, no call, successful or failing,     *)
(* changes its sample index or the class vocabulary.                       *)
C7_ReadOnly ==
    [][ds.kind # "none" => (ds' = ds /\ tt' = tt)]_vars

\* a successful get on the OCR adapter, its lines still those of the file
C7_Witness ==
    /\ ds.kind = "ocr"
    /\ ret.op = "getitem"
    /\ ret.status = "ok"
    /\ ds.data = disk.lines

\* a well-formed annotation was given to the XML reader
ReadWellFormed ==
    /\ ret.op = "call"
    /\ \A k \in 1..Len(ret.args.target.objects) :
          WellFormed(ret.args.target.objects[k])

(* C8 as stated: the XML reader fails with KeyError whenever any object's  *)
(* lower-cased, trimmed name is absent from the vocabulary, difficult or   *)
(* not, whatever keep_difficult is.                                        *)
C8_Original ==
    (/\ ReadWellFormed
     /\ \E k \in 1..Len(ret.args.target.objects) :
           ClassName(ret.args.target.objects[k]) \notin DOMAIN tt.class_to_ind)
    => ret.status = "KeyError"

(* C8 as amended: on a well-formed annotation the XML reader fails with    *)
(* KeyError, returning nothing, exactly when some object it does not skip  *)
(* (one not flagged difficult, or any object under keep_difficult) has a   *)
(* name absent from the vocabulary; the name of a skipped object is never  *)
(* looked up.                                                              *)
C8_Amended ==
    ReadWellFormed =>
        LET objs == Reported(ret.args.target.objects, tt.keep_difficult)
            unknown == \E j \in 1..Len(objs) :
                          ClassName(objs[j]) \notin DOMAIN tt.class_to_ind
        IN  /\ unknown => (ret.status = "KeyError" /\ ret.value = <<>>)
            /\ ~unknown => ret.status = "ok"

\* an unknown name on a difficult object that keep_difficult keeps
C8_Witness ==
    /\ ReadWellFormed
    /\ tt.keep_difficult
    /\ ret.status = "KeyError"
    /\ \A k \in 1..Len(ret.args.target.objects) :
          ClassName(ret.args.target.objects[k]) \notin DOMAIN tt.class_to_ind
             => FlaggedDifficult(ret.args.target.objects[k])

(* C9: the image get returns has its channels reversed (BGR to RGB) and    *)
(* its axes permuted from (H, W, C) to (C, H, W), with or without an       *)
(* augmentation transform.                                                 *)
C9_RgbChannelsFirst ==
    (ret.op = "getitem" /\ ret.status = "ok")
    => /\ ret.value.img.channels = <<"R", "G", "B">>
       /\ ret.value.img.axes = <<"C", "H", "W">>
       /\ ret.value.img.shape = <<3, SourceSize[2], SourceSize[1]>>

\* the same adapter with an augmentation transform supplied
Transforming(d) == [d EXCEPT !.transform = "identity"]

(* C10: for a valid index of a sample that is retrievable with a transform *)
(* supplied, get on an adapter constructed without one completes and       *)
(* returns the normaliser's output as target.                              *)
C10_TransformOptional ==
    (/\ ret.op = "getitem"
     /\ ds.transform = "None"
     /\ 0 <= ret.args /\ ret.args < Length(ds)
     /\ (CASE ds.kind = "voc" ->
                VOCDetection_getitem(Transforming(ds), tt, ret.args)
           [] ds.kind = "ocr" -> ImgDataset_getitem(Transforming(ds), ret.args)
           [] ds.kind = "lp" -> LPDataset_getitem(Transforming(ds), ret.args)
        ).status = "ok")
    => /\ ret.status = "ok"
       /\ ret.value.target = ret.pre[1]

====
